---- MODULE Spec2Model ----
(***************************************************************************)
(* NezamPezeshkiCrawler (src/pyscraper.py): a sequential crawl of the      *)
(* province -> city -> specialty hierarchy of membersearch.irimc.org.      *)
(*                                                                         *)
(* Strings the code takes apart (pagination labels, "Province-City" cells) *)
(* are sequences of one-character strings.  URLs are sequences of path     *)
(* segments, so that `a + b` of the code is `a \o b`.  A Python dict is a  *)
(* sequence of <<key, value>> pairs with unique keys (insertion order).    *)
(* The absent URL (None) and the empty string are both <<>>.               *)
(***************************************************************************)
EXTENDS Integers, Sequences, FiniteSets, TLC

VARIABLES
    pc,             \* position of the client / of scrape
    driver,         \* self.driver: "chrome" or "None"
    windows,        \* open windows of the browser session (session held iff > 0)
    current_url,    \* the URL last given to driver.get
    doctors_list,   \* self.doctors_list, the accumulator
    province_name,  \* argument of scrape
    specialty_name, \* self.specialty_name
    province_link,  \* scrape's local
    cities_mapping, \* scrape's local (dict)
    ci,             \* position of the city loop in cities_mapping (0: not started)
    specPages,      \* the site's specialty table of the city, page by page
    curSpecPage,    \* the page of that table the browser shows
    mapping,        \* _get_mapping's local in specs mode (dict)
    clicks,         \* next-page clicks of the running specs-mode resolution
    spec_link,      \* scrape's local
    listing,        \* the site's pagination panel of the specialty listing
    main_pagination_url, \* walker's local
    num_pages,      \* walker's local
    page_number,    \* walker's loop variable
    fetched,        \* URLs given to requests.get by the running walker
    bowls_of_soup,  \* walker's local: the pages to parse
    soupIdx,        \* position of `for soup in bowls_of_soup`
    rowIdx,         \* position of `for tr_doc in trs_docs`
    err,            \* the exception propagating, or "none"
    result,         \* what scrape returned: [set, items]
    out,            \* cities reported "Specialty not found" by the running call
    served,         \* rows the site served to the running call, in order
    reused          \* the client has called scrape a second time

vars == <<pc, driver, windows, current_url, doctors_list, province_name,
          specialty_name, province_link, cities_mapping, ci, specPages,
          curSpecPage, mapping, clicks, spec_link, listing,
          main_pagination_url, num_pages, page_number, fetched, bowls_of_soup,
          soupIdx, rowIdx, err, result, out, served, reused>>

(***************************************************************************)
(* Bounds of the environment (the web site).                               *)
(***************************************************************************)
MaxCities == 2
MaxSpecPages == 2
MaxRows == 2

None == <<>>

(***************************************************************************)
(* Generic helpers.                                                        *)
(***************************************************************************)
Range(s) == {s[i] : i \in 1..Len(s)}

Min(S) == CHOOSE x \in S : \A y \in S : x <= y


(***************************************************************************)
(* Python dict: insertion-ordered, unique keys, last write wins.           *)
(***************************************************************************)
Keys(d) == {d[i][1] : i \in 1..Len(d)}

\* dict.get(k): the value, or None
DictGet(d, k) ==
    IF k \in Keys(d)
    THEN d[CHOOSE i \in 1..Len(d) : d[i][1] = k][2]
    ELSE None

\* d[k] = v
DictSet(d, k, v) ==
    IF k \in Keys(d)
    THEN [i \in 1..Len(d) |-> IF d[i][1] = k THEN <<k, v>> ELSE d[i]]
    ELSE Append(d, <<k, v>>)

\* d.update(e)
RECURSIVE DictUpdate(_, _)
DictUpdate(d, e) ==
    IF e = <<>> THEN d
    ELSE DictUpdate(DictSet(d, Head(e)[1], Head(e)[2]), Tail(e))

(***************************************************************************)
(* URLs of the crawler.                                                    *)
(***************************************************************************)
parent_url == <<"https://membersearch.irimc.org/">>

provinces_url == parent_url \o <<"directory">>

\* {atag.get_text(strip=True): self.parent_url + atag.get('href') for atag in atags}
AnchorMapping(atags) ==
    DictUpdate(<<>>, [i \in 1..Len(atags) |->
                        <<atags[i].text, parent_url \o atags[i].href>>])

\* url = self.provinces_url if page_link is None else page_link
MappingUrl(page_link) == IF page_link = None THEN provinces_url ELSE page_link

(***************************************************************************)
(* The page count of a pagination label:                                   *)
(*     int(re.findall(r'\d+', str(label))[0])                              *)
(***************************************************************************)
DigitChars == <<"0", "1", "2", "3", "4", "5", "6", "7", "8", "9">>

IsDigit(c) == c \in Range(DigitChars)

DigitVal(c) == (CHOOSE i \in 1..Len(DigitChars) : DigitChars[i] = c) - 1

\* re.findall(r'\d+', s): the maximal runs of digits of s, left to right
RECURSIVE FindAllDigits(_)
FindAllDigits(s) ==
    LET ds == {i \in 1..Len(s) : IsDigit(s[i])} IN
    IF ds = {} THEN <<>>
    ELSE LET first == Min(ds)
             stop  == Min({j \in first..Len(s) :
                             j = Len(s) \/ ~IsDigit(s[j + 1])})
         IN  <<SubSeq(s, first, stop)>>
                 \o FindAllDigits(SubSeq(s, stop + 1, Len(s)))

\* int(s) of a string of digits
RECURSIVE IntOf(_)
IntOf(s) ==
    IF s = <<>> THEN 0
    ELSE 10 * IntOf(SubSeq(s, 1, Len(s) - 1)) + DigitVal(s[Len(s)])

\* a label without digits read as one page
PageCountOrOne(label) ==
    LET runs == FindAllDigits(label) IN
    [ok |-> TRUE, n |-> IF runs = <<>> THEN 1 ELSE IntOf(runs[1])]

\* [ok |-> FALSE] stands for the IndexError of [0] on an empty list
PageCount(label) ==
    LET runs == FindAllDigits(label) IN
    IF runs = <<>> THEN [ok |-> FALSE, n |-> 0]
    ELSE [ok |-> TRUE, n |-> IntOf(runs[1])]

\* pagination_atags[0].get('href').split('/')[:-1], joined again, plus '/'
PaginationPrefix(href) == SubSeq(href, 1, Len(href) - 1)

\* str(k) of a natural number
RECURSIVE Str(_)
Str(k) ==
    IF k < 10 THEN <<DigitChars[k + 1]>>
    ELSE Str(k \div 10) \o <<DigitChars[(k % 10) + 1]>>

\* a range that starts at 0: range(num_pages)
PageRangeFromZero(n) == [i \in 1..n |-> i - 1]

\* range(1, num_pages + 1)
PageRange(n) == [i \in 1..n |-> i]

\* self.parent_url + main_pagination_url + str(page_number)
PageUrl(prefix, k) == parent_url \o prefix \o Str(k)

(***************************************************************************)
(* The record of one table row (_parse_doctor_info, loop body).            *)
(***************************************************************************)
Placeholder == <<"n", "a", "m", "o", "s", "h", "a", "k", "h", "a", "s">>

\* str.split(sep)
RECURSIVE Split(_, _)
Split(s, sep) ==
    LET hits == {i \in 1..Len(s) : s[i] = sep} IN
    IF hits = {} THEN <<s>>
    ELSE <<SubSeq(s, 1, Min(hits) - 1)>>
            \o Split(SubSeq(s, Min(hits) + 1, Len(s)), sep)

\* get_text(strip=True) of one text node: leading and trailing blanks dropped
RECURSIVE Strip(_)
Strip(s) ==
    IF s = <<>> THEN s
    ELSE IF Head(s) = " " THEN Strip(Tail(s))
    ELSE IF s[Len(s)] = " " THEN Strip(SubSeq(s, 1, Len(s) - 1))
    ELSE s

\* the first two parts taken whenever there are at least two
WorkPlaceFirstTwo(row) ==
    LET parts == IF row.hasAnchor THEN Split(Strip(row.provcity), "-") ELSE <<>> IN
    IF row.hasAnchor /\ Len(parts) >= 2
    THEN [WorkProvince |-> parts[1], WorkCity |-> parts[2]]
    ELSE [WorkProvince |-> Placeholder, WorkCity |-> Placeholder]

\* try: WorkProvince, WorkCity = td_doc[4].a.get_text(strip=True).split('-')
\* except Exception: both are the placeholder
\* (row.hasAnchor = FALSE: td_doc[4].a is None, an AttributeError)
WorkPlace(row) ==
    LET parts == IF row.hasAnchor THEN Split(Strip(row.provcity), "-") ELSE <<>> IN
    IF row.hasAnchor /\ Len(parts) = 2
    THEN [WorkProvince |-> parts[1], WorkCity |-> parts[2]]
    ELSE [WorkProvince |-> Placeholder, WorkCity |-> Placeholder]

\* City taken from the row's own text
DoctorRecordCityFromRow(row, city) ==
    [Nezam          |-> row.nezam,
     City           |-> WorkPlace(row).WorkCity,
     AuthorizedCity |-> city,
     WorkCity       |-> WorkPlace(row).WorkCity,
     WorkProvince   |-> WorkPlace(row).WorkProvince]

DoctorRecord(row, city) ==
    [Nezam          |-> row.nezam,
     City           |-> city,
     AuthorizedCity |-> city,
     WorkCity       |-> WorkPlace(row).WorkCity,
     WorkProvince   |-> WorkPlace(row).WorkProvince]


(***************************************************************************)
(* The web site, as far as the crawler reads it.                           *)
(***************************************************************************)
Provinces == <<"Mazandaran", "Tehran">>

\* a province the root directory page does not list
AbsentProvince == "Gilan"

CityNames == <<"A", "B", "C", "D">>

Specialties == <<"radiology", "dermatology">>

\* column 3 of the root directory page
ProvinceAnchors ==
    [i \in 1..Len(Provinces) |->
        [text |-> Provinces[i], href |-> <<"province", Provinces[i]>>]]

\* column 2 of a page that lists n cities
CityAnchors(n) ==
    [i \in 1..n |-> [text |-> CityNames[i], href |-> <<"city", CityNames[i]>>]]

\* column 2 of one page of a city's specialty table
SpecAnchors(city, names) ==
    [i \in 1..Len(names) |->
        [text |-> names[i], href |-> <<"list", city, names[i]>>]]

SpecPageContents ==
    {<<>>, <<Specialties[1]>>, <<Specialties[2]>>, <<Specialties[2], Specialties[1]>>}

\* The specialty table of a city: 1..MaxSpecPages pages.  The last element of
\* ul.pagination is enabled on every page but the last; a table of one page
\* may have no pagination at all.
SpecTables ==
    UNION {
        {[i \in 1..n |->
            [names  |-> c[i],
             lastLi |-> IF i < n THEN "enabled" ELSE last]] :
                c \in [1..n -> SpecPageContents],
                last \in IF n = 1 THEN {"disabled", "absent"} ELSE {"disabled"}} :
        n \in 1..MaxSpecPages}

\* The page-number panel of a specialty listing: absent, or the label of its
\* last control.  total is the number of pages the site has for the listing.
Panels ==
    {[present |-> FALSE, label |-> <<>>, total |-> 1],
     [present |-> TRUE, label |-> <<"1">>, total |-> 1],
     [present |-> TRUE, label |-> <<"2">>, total |-> 2],
     [present |-> TRUE, label |-> <<" ", "0", "2", " ", ">">>, total |-> 2],
     [present |-> TRUE, label |-> <<"2", "/", "9">>, total |-> 2],
     [present |-> TRUE, label |-> <<">", ">">>, total |-> 0],
     [present |-> TRUE, label |-> <<"N", "o", "n", "e">>, total |-> 0]}

\* href of the first page-number control of the listing at spec_link
PanelHref(link) == SubSeq(link, Len(parent_url) + 1, Len(link)) \o <<"1">>

\* The "Province-City" cell of a row: its anchor may be missing.
Cells ==
    <<[hasAnchor |-> TRUE,  provcity |-> <<"T", "-", "S">>],
      [hasAnchor |-> TRUE,  provcity |-> <<"T", "S">>],
      [hasAnchor |-> TRUE,  provcity |-> <<"T", "-", "S", "-", "X">>],
      [hasAnchor |-> FALSE, provcity |-> <<>>],
      [hasAnchor |-> TRUE,  provcity |-> <<" ", "T", "-", "S", " ">>],
      [hasAnchor |-> TRUE,  provcity |-> <<"T", "-">>],
      [hasAnchor |-> TRUE,  provcity |-> <<>>]>>

Row(k, j, cell) ==
    [nezam |-> <<k, j>>, hasAnchor |-> cell.hasAnchor, provcity |-> cell.provcity]

\* page k of a listing, with r rows (soup.tbody.find_all('tr'))
SitePage(k, r) == [j \in 1..r |-> Row(k, j, Cells[((k + j) % Len(Cells)) + 1])]

\* the rows of a page as the site served them for a city
Served(city, page) ==
    [j \in 1..Len(page) |-> [city |-> city, nezam |-> page[j].nezam]]

(***************************************************************************)
(* The controller.                                                         *)
(***************************************************************************)
NoResult == [set |-> FALSE, items |-> <<>>]

NoListing == [present |-> FALSE, label |-> <<>>, total |-> 0]

\* the loop variables of `for city_name, city_link in cities_mapping.items()`
city_name == cities_mapping[ci][1]

city_link == cities_mapping[ci][2]

SessionHeld == windows > 0

Init ==
    /\ pc = "main"
    /\ driver = "chrome"
    /\ windows = 1
    /\ current_url = None
    /\ doctors_list = <<>>
    /\ province_name = ""
    /\ specialty_name = ""
    /\ province_link = None
    /\ cities_mapping = <<>>
    /\ ci = 0
    /\ specPages = <<>>
    /\ curSpecPage = 0
    /\ mapping = <<>>
    /\ clicks = 0
    /\ spec_link = None
    /\ listing = NoListing
    /\ main_pagination_url = <<>>
    /\ num_pages = 0
    /\ page_number = 0
    /\ fetched = <<>>
    /\ bowls_of_soup = <<>>
    /\ soupIdx = 0
    /\ rowIdx = 0
    /\ err = "none"
    /\ result = NoResult
    /\ out = <<>>
    /\ served = <<>>
    /\ reused = FALSE

sessionVars == <<driver, windows>>

specsVars == <<specPages, curSpecPage, mapping, clicks>>

walkerVars == <<spec_link, listing, main_pagination_url, num_pages, page_number,
                fetched, bowls_of_soup, soupIdx, rowIdx>>

\* scrape, up to the province lookup
ScrapeEntry(p, s) ==
    /\ specialty_name' = s
    /\ province_name' = p
    /\ current_url' = MappingUrl(None)
    /\ province_link' = DictGet(AnchorMapping(ProvinceAnchors), p)
    /\ cities_mapping' = <<>>
    /\ ci' = 0
    /\ result' = NoResult
    /\ out' = <<>>
    /\ served' = <<>>
    /\ pc' = "cities"
    /\ UNCHANGED <<sessionVars, specsVars, walkerVars, doctors_list, err>>

\* crawler.scrape(province_name=..., specialty_name=...) of the with block
Scrape ==
    /\ pc = "main"
    /\ \E p \in {Provinces[1], AbsentProvince}, s \in Range(Specialties) :
          ScrapeEntry(p, s)
    /\ UNCHANGED reused

\* cities_mapping = self._get_mapping(page_link=province_link, nth_child=2)
GetCitiesMapping ==
    /\ pc = "cities"
    /\ \E n \in 0..MaxCities :
          cities_mapping' = AnchorMapping(CityAnchors(n))
    /\ current_url' = MappingUrl(province_link)
    /\ ci' = 0
    /\ pc' = "city_loop"
    /\ UNCHANGED <<sessionVars, specsVars, walkerVars, doctors_list,
                   province_name, specialty_name, province_link, err, result,
                   out, served, reused>>

\* the target-found check left out
SpecsDoneIgnoresTarget(m, target, lastLi) == lastLi \in {"absent", "disabled"}

\* specs mode returns the mapping when the target is a key, or when the last
\* pagination element is missing or disabled
SpecsDone(m, target, lastLi) ==
    \/ target \in Keys(m)
    \/ lastLi \in {"absent", "disabled"}

\* next city of the loop: _get_mapping(page_link=city_link, nth_child=2,
\* mode='specs') up to the pagination loop
NextCity ==
    /\ pc = "city_loop"
    /\ ci < Len(cities_mapping)
    /\ ci' = ci + 1
    /\ current_url' = MappingUrl(cities_mapping[ci + 1][2])
    /\ \E table \in SpecTables :
          LET m == AnchorMapping(SpecAnchors(cities_mapping[ci + 1][1],
                                             table[1].names))
          IN  /\ specPages' = table
              /\ curSpecPage' = 1
              /\ mapping' = m
              /\ clicks' = 0
              /\ pc' = IF SpecsDone(m, specialty_name, table[1].lastLi)
                       THEN "lookup" ELSE "spec_next"
    /\ UNCHANGED <<sessionVars, walkerVars, doctors_list, province_name,
                   specialty_name, province_link, cities_mapping, err, result,
                   out, served, reused>>

\* one turn of the pagination loop: the next-page control became clickable
ClickNext ==
    /\ pc = "spec_next"
    /\ curSpecPage < Len(specPages)
    /\ LET page == specPages[curSpecPage + 1]
           m == DictUpdate(mapping, AnchorMapping(SpecAnchors(city_name, page.names)))
       IN  /\ curSpecPage' = curSpecPage + 1
           /\ clicks' = clicks + 1
           /\ mapping' = m
           /\ pc' = IF SpecsDone(m, specialty_name, page.lastLi)
                    THEN "lookup" ELSE "spec_next"
    /\ UNCHANGED <<sessionVars, walkerVars, specPages, current_url, doctors_list,
                   province_name, specialty_name, province_link, cities_mapping,
                   ci, err, result, out, served, reused>>

\* the timeout swallowed: the mapping built so far is returned
WaitTimeoutReturnsPartial ==
    /\ pc = "spec_next"
    /\ pc' = "lookup"
    /\ UNCHANGED <<sessionVars, specsVars, walkerVars, current_url, doctors_list,
                   province_name, specialty_name, province_link, cities_mapping,
                   ci, err, result, out, served, reused>>

\* WebDriverWait(...).until(...) raised TimeoutException: nothing catches it
WaitTimeout ==
    /\ pc = "spec_next"
    /\ err' = "TimeoutException"
    /\ pc' = "raised"
    /\ UNCHANGED <<sessionVars, specsVars, walkerVars, current_url, doctors_list,
                   province_name, specialty_name, province_link, cities_mapping,
                   ci, result, out, served, reused>>

\* the loop left (break) at the first city without the specialty
SkipCityBreaks ==
    /\ pc = "lookup"
    /\ DictGet(mapping, specialty_name) = None
    /\ out' = Append(out, city_name)
    /\ specPages' = <<>>
    /\ curSpecPage' = 0
    /\ mapping' = <<>>
    /\ clicks' = 0
    /\ ci' = Len(cities_mapping)
    /\ pc' = "city_loop"
    /\ UNCHANGED <<sessionVars, walkerVars, current_url, doctors_list,
                   province_name, specialty_name, province_link, cities_mapping,
                   err, result, served, reused>>

\* spec_link is falsy: the city is reported and skipped
SkipCity ==
    /\ pc = "lookup"
    /\ DictGet(mapping, specialty_name) = None
    /\ out' = Append(out, city_name)
    /\ specPages' = <<>>
    /\ curSpecPage' = 0
    /\ mapping' = <<>>
    /\ clicks' = 0
    /\ pc' = "city_loop"
    /\ UNCHANGED <<sessionVars, walkerVars, current_url, doctors_list,
                   province_name, specialty_name, province_link, cities_mapping,
                   ci, err, result, served, reused>>


\* _scrape_all_pages_for_specialty up to the fetch loop: the first page is
\* loaded and its page-number panel read.  With the panel absent the page just
\* loaded is the only bowl; a label without digits is an IndexError.
EnterListing ==
    /\ pc = "lookup"
    /\ DictGet(mapping, specialty_name) # None
    /\ spec_link' = DictGet(mapping, specialty_name)
    /\ current_url' = spec_link'
    /\ specPages' = <<>>
    /\ curSpecPage' = 0
    /\ mapping' = <<>>
    /\ clicks' = 0
    /\ fetched' = <<>>
    /\ rowIdx' = 0
    /\ \E panel \in Panels :
       \E r \in IF panel.present THEN {0} ELSE 0..MaxRows :
          /\ listing' = panel
          /\ IF ~panel.present
             THEN /\ bowls_of_soup' = <<SitePage(1, r)>>
                  /\ served' = served \o Served(city_name, SitePage(1, r))
                  /\ soupIdx' = 1
                  /\ pc' = "parse"
                  /\ UNCHANGED <<main_pagination_url, num_pages, page_number, err>>
             ELSE /\ bowls_of_soup' = <<>>
                  /\ main_pagination_url' = PaginationPrefix(PanelHref(spec_link'))
                  /\ IF PageCount(panel.label).ok
                     THEN /\ num_pages' = PageCount(panel.label).n
                          /\ page_number' = 1
                          /\ soupIdx' = 1
                          /\ pc' = IF Len(PageRange(num_pages')) >= 1
                                   THEN "fetch" ELSE "parse"
                          /\ UNCHANGED err
                     ELSE /\ err' = "IndexError"
                          /\ pc' = "raised"
                          /\ UNCHANGED <<num_pages, page_number, soupIdx>>
                  /\ UNCHANGED served
    /\ UNCHANGED <<sessionVars, doctors_list, province_name, specialty_name,
                   province_link, cities_mapping, ci, result, out, reused>>

\* one turn of `for page_number in range(1, num_pages + 1)`; page_number is
\* the position in the range
FetchPage ==
    /\ pc = "fetch"
    /\ page_number <= Len(PageRange(num_pages))
    /\ LET k == PageRange(num_pages)[page_number] IN
       \E r \in 0..MaxRows :
          /\ fetched' = Append(fetched, PageUrl(main_pagination_url, k))
          /\ bowls_of_soup' = Append(bowls_of_soup, SitePage(k, r))
          /\ served' = served \o Served(city_name, SitePage(k, r))
    /\ page_number' = page_number + 1
    /\ pc' = IF page_number' <= Len(PageRange(num_pages)) THEN "fetch" ELSE "parse"
    /\ UNCHANGED <<sessionVars, specsVars, spec_link, listing, main_pagination_url,
                   num_pages, soupIdx, rowIdx, current_url, doctors_list,
                   province_name, specialty_name, province_link, cities_mapping,
                   ci, err, result, out, reused>>

\* one turn of `for tr_doc in trs_docs` of _parse_doctor_info(soup, city_name)
ParseRow ==
    /\ pc = "parse"
    /\ soupIdx <= Len(bowls_of_soup)
    /\ rowIdx < Len(bowls_of_soup[soupIdx])
    /\ doctors_list' = Append(doctors_list,
                              DoctorRecord(bowls_of_soup[soupIdx][rowIdx + 1], city_name))
    /\ rowIdx' = rowIdx + 1
    /\ UNCHANGED <<sessionVars, specsVars, spec_link, listing, main_pagination_url,
                   num_pages, page_number, fetched, bowls_of_soup, soupIdx, pc,
                   current_url, province_name, specialty_name, province_link,
                   cities_mapping, ci, err, result, out, served, reused>>

\* the rows of a soup are done: the next soup, or the walker returns
NextSoup ==
    /\ pc = "parse"
    /\ soupIdx > Len(bowls_of_soup) \/ rowIdx = Len(bowls_of_soup[soupIdx])
    /\ IF soupIdx < Len(bowls_of_soup)
       THEN /\ soupIdx' = soupIdx + 1
            /\ rowIdx' = 0
            /\ UNCHANGED <<pc, spec_link, listing, main_pagination_url, num_pages,
                           page_number, fetched, bowls_of_soup>>
       ELSE /\ pc' = "city_loop"
            /\ spec_link' = None
            /\ listing' = NoListing
            /\ main_pagination_url' = <<>>
            /\ num_pages' = 0
            /\ page_number' = 0
            /\ fetched' = <<>>
            /\ bowls_of_soup' = <<>>
            /\ soupIdx' = 0
            /\ rowIdx' = 0
    /\ UNCHANGED <<sessionVars, specsVars, current_url, doctors_list,
                   province_name, specialty_name, province_link, cities_mapping,
                   ci, err, result, out, served, reused>>

\* return self.doctors_list.copy()
Return ==
    /\ pc = "city_loop"
    /\ ci = Len(cities_mapping)
    /\ result' = [set |-> TRUE, items |-> doctors_list]
    /\ pc' = "returned"
    /\ UNCHANGED <<sessionVars, specsVars, walkerVars, current_url, doctors_list,
                   province_name, specialty_name, province_link, cities_mapping,
                   ci, err, out, served, reused>>

\* the rest of the with block: the records are written to the spreadsheet
Export ==
    /\ pc = "returned"
    /\ pc' = "exported"
    /\ UNCHANGED <<sessionVars, specsVars, walkerVars, current_url, doctors_list,
                   province_name, specialty_name, province_link, cities_mapping,
                   ci, err, result, out, served, reused>>

\* the driver dropped without closing its window
CloseDropsDriverOnly ==
    /\ driver' = "None"
    /\ UNCHANGED windows

\* close(): driver.close() closes the only window of the session
Close ==
    IF driver # "None"
    THEN /\ windows' = windows - 1
         /\ driver' = "None"
    ELSE UNCHANGED <<driver, windows>>

\* __exit__, at the end of the with block or with an exception propagating
Exit ==
    /\ pc \in {"exported", "raised"}
    /\ Close
    /\ pc' = "done"
    /\ UNCHANGED <<specsVars, walkerVars, current_url, doctors_list,
                   province_name, specialty_name, province_link, cities_mapping,
                   ci, err, result, out, served, reused>>

Next ==
    \/ Scrape
    \/ GetCitiesMapping
    \/ NextCity
    \/ ClickNext
    \/ WaitTimeout
    \/ SkipCity
    \/ EnterListing
    \/ FetchPage
    \/ ParseRow
    \/ NextSoup
    \/ Return
    \/ Export
    \/ Exit

Spec == Init /\ [][Next]_vars


(***************************************************************************)
(* A client that calls scrape a second time on the same controller, inside *)
(* the same with block.                                                    *)
(***************************************************************************)
ScrapeAgain ==
    /\ pc = "returned"
    /\ ~reused
    /\ reused' = TRUE
    /\ \E p \in {Provinces[1], AbsentProvince}, s \in Range(Specialties) :
          ScrapeEntry(p, s)

NextReuse ==
    \/ Next
    \/ ScrapeAgain

SpecReuse == Init /\ [][NextReuse]_vars

(***************************************************************************)
(* _parse_doctor_info alone: one results page of up to MaxRows rows, each  *)
(* with any of the cells, parsed for one of two cities.                    *)
(***************************************************************************)
ParserPages ==
    UNION {{[j \in 1..r |-> Row(1, j, Cells[c[j]])] :
                c \in [1..r -> 1..Len(Cells)]} : r \in 0..MaxRows}

InitParser ==
    /\ pc = "parse"
    /\ driver = "chrome"
    /\ windows = 1
    /\ doctors_list = <<>>
    /\ province_name = Provinces[1]
    /\ specialty_name = Specialties[1]
    /\ province_link = DictGet(AnchorMapping(ProvinceAnchors), Provinces[1])
    /\ cities_mapping = AnchorMapping(CityAnchors(2))
    /\ ci \in 1..2
    /\ specPages = <<>>
    /\ curSpecPage = 0
    /\ mapping = <<>>
    /\ clicks = 0
    /\ spec_link = parent_url \o <<"list", city_name, specialty_name>>
    /\ current_url = spec_link
    /\ listing = [present |-> FALSE, label |-> <<>>, total |-> 1]
    /\ main_pagination_url = <<>>
    /\ num_pages = 0
    /\ page_number = 0
    /\ fetched = <<>>
    /\ \E page \in ParserPages :
          /\ bowls_of_soup = <<page>>
          /\ served = Served(city_name, page)
    /\ soupIdx = 1
    /\ rowIdx = 0
    /\ err = "none"
    /\ result = NoResult
    /\ out = <<>>
    /\ reused = FALSE

SpecParser == InitParser /\ [][ParseRow]_vars


(***************************************************************************)
(* Claims.                                                                 *)
(***************************************************************************)

\* C1: when the province name is not a key of the province mapping, the run
\* fails loudly: the city loop is never reached, no city is processed and
\* scrape returns nothing.
C1_MissingProvinceFailsLoudly ==
    (pc # "main" /\ province_name \notin Keys(AnchorMapping(ProvinceAnchors)))
        => /\ pc \in {"cities", "raised", "done"}
           /\ pc = "done" => err # "none"
           /\ ci = 0
           /\ ~result.set

\* C2: every record appended to the accumulator carries, as City and as
\* AuthorizedCity, the name of the city whose turn of the city loop is
\* running, whatever its WorkCity and WorkProvince are; records already in the
\* accumulator are left as they are.
C2_CityIsActiveCity ==
    [][/\ Len(doctors_list') >= Len(doctors_list)
       /\ SubSeq(doctors_list', 1, Len(doctors_list)) = doctors_list
       /\ \A i \in (Len(doctors_list) + 1)..Len(doctors_list') :
             /\ ci \in 1..Len(cities_mapping)
             /\ doctors_list'[i].City = cities_mapping[ci][1]
             /\ doctors_list'[i].AuthorizedCity = cities_mapping[ci][1]]_vars

C2_Witness ==
    /\ \E i \in 1..Len(doctors_list) :
          /\ doctors_list[i].City = CityNames[2]
          /\ doctors_list[i].WorkCity = Placeholder
    /\ \E i \in 1..Len(doctors_list) :
          /\ doctors_list[i].City = CityNames[1]
          /\ doctors_list[i].WorkCity = <<"S">>

\* Some action of Next is enabled (ENABLED Next, spelled out by position).
CanStep ==
    \/ pc \in {"main", "cities", "spec_next", "lookup", "returned", "exported", "raised"}
    \/ pc = "city_loop" /\ ci <= Len(cities_mapping)
    \/ pc = "fetch" /\ page_number <= Len(PageRange(num_pages))
    \/ pc = "parse" /\ (soupIdx > Len(bowls_of_soup)
                           \/ rowIdx <= Len(bowls_of_soup[soupIdx]))

CanStepIsEnabled == CanStep <=> ENABLED Next

C4_SkipAndCount ==
    /\ [][(pc = "lookup" /\ specialty_name \notin Keys(mapping))
            => /\ doctors_list' = doctors_list
               /\ out' = Append(out, cities_mapping[ci][1])
               /\ pc' = "city_loop"
               /\ ci' = ci
               /\ err' = "none"]_vars
    /\ [](pc = "returned" =>
            /\ result.set
            /\ Len(result.items) = Len(served)
            /\ \A i \in 1..Len(served) :
                  /\ result.items[i].City = served[i].city
                  /\ result.items[i].Nezam = served[i].nezam
            /\ \A i \in 1..Len(result.items) : result.items[i].City \notin Range(out)
            /\ \A i, j \in 1..Len(out) : out[i] = out[j] => i = j)

C4_Witness ==
    /\ pc = "returned"
    /\ out = <<CityNames[2]>>
    /\ Len(result.items) = 2 * MaxRows
    /\ \A i \in 1..Len(result.items) : result.items[i].City = CityNames[1]

\* C5: a step of the pagination loop that clicks nothing is the timeout of
\* the wait: it raises, and from then on the city loop does not move, the
\* accumulator does not grow and scrape returns nothing.
C5_TimeoutPropagates ==
    /\ [][(pc = "spec_next" /\ clicks' = clicks)
            => (pc' = "raised" /\ err' = "TimeoutException")]_vars
    /\ [][err = "TimeoutException"
            => /\ ci' = ci
               /\ doctors_list' = doctors_list
               /\ err' = err
               /\ pc' \in {"raised", "done"}]_vars
    /\ [](err = "TimeoutException" => (pc \in {"raised", "done"} /\ ~result.set))

C5_Witness ==
    /\ pc = "done"
    /\ err = "TimeoutException"
    /\ mapping # <<>>
    /\ ci < Len(cities_mapping)

ExpectedClicks ==
    LET hits == {i \in 1..Len(specPages) :
                    \E j \in 1..Len(specPages[i].names) :
                        specPages[i].names[j] = specialty_name}
    IN  IF hits = {} THEN Len(specPages) - 1 ELSE Min(hits) - 1

RECURSIVE Flatten(_)
Flatten(pages) ==
    IF pages = <<>> THEN <<>> ELSE Head(pages) \o Flatten(Tail(pages))

\* the rows of the walker's bowls parsed so far
ParsedSoFar ==
    Len(Flatten(SubSeq(bowls_of_soup, 1, soupIdx - 1))) + rowIdx

\* C7: with a panel whose last label parses to N >= 1 the walker fetches the
\* N URLs spec_link + k, k = 1..N, in increasing order, each once, and parses
\* the N pages in that order; with no panel it fetches nothing and parses
\* the one page just loaded.
C7_WalkerPages ==
    /\ pc \in {"fetch", "parse"} =>
          /\ \A i \in 1..Len(fetched) : fetched[i] = spec_link \o <<DigitChars[i + 1]>>
          /\ Len(bowls_of_soup) = IF listing.present THEN Len(fetched) ELSE 1
          /\ \A k \in 1..Len(bowls_of_soup) :
                \A j \in 1..Len(bowls_of_soup[k]) :
                    bowls_of_soup[k][j].nezam = <<k, j>>
    /\ (pc = "fetch" /\ listing.present) => Len(fetched) < listing.total
    /\ (pc = "parse" /\ listing.present) => Len(fetched) = listing.total
    /\ (pc = "parse" /\ ~listing.present) => fetched = <<>>
    /\ pc = "parse" =>
          /\ ParsedSoFar <= Len(doctors_list)
          /\ \A i \in 1..ParsedSoFar :
                doctors_list[Len(doctors_list) - ParsedSoFar + i].Nezam
                    = Flatten(bowls_of_soup)[i].nezam

C7_Witness ==
    /\ pc = "parse"
    /\ listing.present
    /\ Len(fetched) = 2
    /\ soupIdx = 2
    /\ rowIdx = MaxRows
    /\ Len(bowls_of_soup[1]) = MaxRows

HasDigit(label) ==
    \E i \in 1..Len(label) :
        label[i] \in {"0", "1", "2", "3", "4", "5", "6", "7", "8", "9"}

\* C8: with a panel whose last label holds no digit the walker raises: no
\* page is fetched, no bowl is parsed, no record of the city is in the
\* accumulator and scrape returns nothing.
C8_NoDigitsFailsLoudly ==
    (listing.present /\ ~HasDigit(listing.label))
        => /\ pc \in {"raised", "done"}
           /\ err = "IndexError"
           /\ fetched = <<>>
           /\ bowls_of_soup = <<>>
           /\ \A i \in 1..Len(doctors_list) : doctors_list[i].City # cities_mapping[ci][1]
           /\ ~result.set

C8_Witness ==
    /\ pc = "done"
    /\ err = "IndexError"
    /\ ci = 2
    /\ doctors_list # <<>>

\* the text of a cell without its leading and trailing blanks
Trimmed(s) ==
    LET inked == {i \in 1..Len(s) : s[i] # " "} IN
    IF inked = {} THEN <<>>
    ELSE SubSeq(s, Min(inked), CHOOSE i \in inked : \A j \in inked : j <= i)

Hyphens(s) == Cardinality({i \in 1..Len(s) : s[i] = "-"})

C10_ResultIsThisCallsRecords ==
    pc = "returned" =>
        /\ Len(result.items) = Len(served)
        /\ \A i \in 1..Len(served) :
              /\ result.items[i].City = served[i].city
              /\ result.items[i].Nezam = served[i].nezam

====
